---- MODULE Spec2Model ----
(***************************************************************************)
(* A model of compare.py: the batch run of main() that normalizes the      *)
(* phrases of every job posting, matches them against the study skills by  *)
(* thresholded cosine similarity, folds the matches into the accumulators  *)
(* and writes the four outputs.                                            *)
(*                                                                         *)
(* Strings that the code splits and trims are sequences of one-character   *)
(* strings.  Similarities are kept in hundredths (0.50 is 50).  The        *)
(* embedding model is a black box: the similarity of every (phrase text,   *)
(* study skill) pair is an arbitrary value fixed at the start of the run.  *)
(***************************************************************************)
EXTENDS Integers, Sequences, FiniteSets, TLC

VARIABLES
    readable,                  \* the input files that open() can read
    jobs_data,                 \* content of job_descriptions.json
    skills_data,               \* content of extracted_skills.json
    sim,                       \* cosine similarity of (phrase text, study index)
    pc,                        \* position of main()
    err,                       \* the exception that ended the run, or "none"
    study_skills,              \* tech_skills + soft_skills
    i,                         \* number of postings the loop has consumed
    results,                   \* list of per-posting result rows
    study_skill_match_counts,  \* coverage counter per study skill
    job_skill_counter,         \* dict text -> count, in insertion order
    job_skill_texts,           \* the phrases of the posting consumed last
    embed_calls,               \* number of model.encode calls made so far
    written,                   \* names of the output files written so far
    out_results,               \* rows of job_skill_matches.csv
    out_summary,               \* content of job_skill_summary.txt
    out_study,                 \* rows of study_skill_match_counts.csv
    out_freq                   \* rows of job_skill_frequencies.csv

vars == <<readable, jobs_data, skills_data, sim, pc, err, study_skills, i,
          results, study_skill_match_counts, job_skill_counter, job_skill_texts,
          embed_calls, written, out_results, out_summary, out_study, out_freq>>

(***************************************************************************)
(* Bounds of the model.                                                    *)
(***************************************************************************)
MaxJobs == 2        \* postings in a postings file
MaxSkills == 2      \* study skills in the vocabulary
MaxStrLen == 3      \* characters of a delimiter-separated field value
MaxItems == 2       \* elements of a list-valued field

SIMILARITY_THRESHOLD == 50

\* Similarities the embedding model may give: just below, and exactly at, the
\* threshold.
SimVals == {49, 50}

(***************************************************************************)
(* Python strings, values and their built-ins.                             *)
(***************************************************************************)
Whitespace == {" "}

RECURSIVE LStrip(_)
LStrip(s) ==
    IF s = <<>> THEN s
    ELSE IF Head(s) \in Whitespace THEN LStrip(Tail(s)) ELSE s

RECURSIVE RStrip(_)
RStrip(s) ==
    IF s = <<>> THEN s
    ELSE IF s[Len(s)] \in Whitespace THEN RStrip(SubSeq(s, 1, Len(s) - 1)) ELSE s

\* str.strip()
Strip(s) == RStrip(LStrip(s))

\* str.split(sep): one more segment than there are separators
RECURSIVE Split(_, _)
Split(s, sep) ==
    IF \A k \in 1..Len(s) : s[k] # sep THEN <<s>>
    ELSE LET k == CHOOSE j \in 1..Len(s) :
                      s[j] = sep /\ \A h \in 1..(j - 1) : s[h] # sep
         IN  <<SubSeq(s, 1, k - 1)>> \o Split(SubSeq(s, k + 1, Len(s)), sep)

\* JSON values.  kind is "absent" (dict.get gave None), "null", "str", "num"
\* or "list"; the fields a kind does not use hold a fixed filler.
Absent == [kind |-> "absent", str |-> <<>>, num |-> 0, items |-> <<>>]
Null == [kind |-> "null", str |-> <<>>, num |-> 0, items |-> <<>>]
Str(s) == [kind |-> "str", str |-> s, num |-> 0, items |-> <<>>]
Num(n) == [kind |-> "num", str |-> <<>>, num |-> n, items |-> <<>>]
List(xs) == [kind |-> "list", str |-> <<>>, num |-> 0, items |-> xs]

Digits == <<"0", "1", "2", "3", "4", "5", "6", "7", "8", "9">>

\* bool(x)
Truthy(x) ==
    CASE x.kind = "str" -> x.str # <<>>
      [] x.kind = "num" -> x.num # 0
      [] x.kind = "list" -> x.items # <<>>
      [] OTHER -> FALSE

\* str(x) of a string, a one-digit number or None
PyStr(x) ==
    CASE x.kind = "str" -> x.str
      [] x.kind = "num" -> <<Digits[x.num + 1]>>
      [] OTHER -> <<"N", "o", "n", "e">>

(***************************************************************************)
(* The phrase normalizer of main(), lines 50-62.                           *)
(***************************************************************************)
FIELDS ==
    <<"requirements", "technologies_expected", "technologies_optional",
      "specializations">>

NonBlank(x) == Strip(x) # <<>>

\* [x.strip() for x in part.split(',') if x.strip()]
CommaTokens(part) ==
    LET kept == SelectSeq(Split(part, ","), NonBlank)
    IN  [k \in 1..Len(kept) |-> Strip(kept[k])]

\* items = []; for part in str(val).split(';'): items.extend(...)
RECURSIVE ExtendParts(_, _)
ExtendParts(items, parts) ==
    IF parts = <<>> THEN items
    ELSE ExtendParts(items \o CommaTokens(Head(parts)), Tail(parts))

ScalarItems(val) ==
    LET toks == ExtendParts(<<>>, Split(PyStr(val), ";"))
    IN  [k \in 1..Len(toks) |-> Str(toks[k])]

KeepItem(x) == Truthy(x) /\ Strip(PyStr(x)) # <<>>

\* a variant of CleanItems: the kept elements are not trimmed
CleanItemsNoStrip(items) ==
    LET kept == SelectSeq(items, KeepItem)
    IN  [k \in 1..Len(kept) |-> PyStr(kept[k])]

\* [str(x).strip() for x in items if x and str(x).strip()]
CleanItems(items) ==
    LET kept == SelectSeq(items, KeepItem)
    IN  [k \in 1..Len(kept) |-> Strip(PyStr(kept[k]))]

\* the body of the loop over the fields: what one field adds
FieldTexts(val) ==
    IF ~Truthy(val) THEN <<>>
    ELSE IF val.kind = "list" THEN CleanItems(val.items)
    ELSE CleanItems(ScalarItems(val))

RECURSIVE ExtendFields(_, _, _)
ExtendFields(texts, job, fields) ==
    IF fields = <<>> THEN texts
    ELSE ExtendFields(texts \o FieldTexts(job[Head(fields)]), job, Tail(fields))

\* job_skill_texts of one posting
JobSkillTexts(job) == ExtendFields(<<>>, job, FIELDS)

\* dict.get(key, default) on a text-valued key
Get(job, key, default) == IF job[key].has THEN job[key].val ELSE default

(***************************************************************************)
(* The inputs: postings files and vocabulary files.                        *)
(***************************************************************************)
NoKey == [has |-> FALSE, val |-> ""]
Key(v) == [has |-> TRUE, val |-> v]

Job(title, company, req, te, to, sp) ==
    [isdict |-> TRUE, title |-> title, company |-> company,
     requirements |-> req, technologies_expected |-> te,
     technologies_optional |-> to, specializations |-> sp]

\* a record of the postings file that is not a JSON object
NotADict ==
    [isdict |-> FALSE, title |-> NoKey, company |-> NoKey,
     requirements |-> Absent, technologies_expected |-> Absent,
     technologies_optional |-> Absent, specializations |-> Absent]

SeqsUpTo(S, n) == UNION {[1..k -> S] : k \in 0..n}

\* Postings of whole runs: one without any field, one whose scalar field
\* repeats a phrase, one with a list field, one malformed.
RunPostings ==
    { Job(Key("QA"), NoKey, Absent, Absent, Absent, Absent),
      Job(Key("Dev"), Key("Acme"), Str(<<"a", ",", "a">>), Absent, Absent, Absent),
      Job(NoKey, Key("Initech"), Absent, List(<<Str(<<"b">>), Str(<<"a">>)>>), Absent, Absent),
      NotADict }

RunFiles == SeqsUpTo(RunPostings, MaxJobs)

\* Field values that exercise the normalizer.
RichAlphabet == {"a", " ", ",", ";"}
RichStrings == SeqsUpTo(RichAlphabet, MaxStrLen)
RichElems ==
    { Str(<<" ">>), Str(<<"a">>), Str(<<" ", "a", ",", "a">>), Num(0), Num(7), Null }
RichVals ==
    {Absent, Null} \cup {Str(s) : s \in RichStrings}
                   \cup {List(xs) : xs \in SeqsUpTo(RichElems, MaxItems)}

NormPostings ==
    { Job(Key("Dev"), Key("Acme"), req, te, to, sp) :
        req \in RichVals,
        te \in {Absent, Str(<<"b">>)},
        to \in {Absent, List(<<Str(<<"c">>)>>)},
        sp \in {Absent, Str(<<"b", ";", "c">>)} }

NormFiles == {<<p>> : p \in NormPostings}

TechNames == <<"Python", "Docker", "SQL", "Git">>
Tech(name) == [has_name |-> TRUE, name |-> name]
Soft(name, has_description, description) ==
    [has_name |-> TRUE, name |-> name, has_description |-> has_description,
     description |-> description]
Vocabulary(techs, softs) ==
    [has_technologies |-> TRUE, technologies |-> techs,
     has_soft_skills |-> TRUE, soft_skills |-> softs]

SoftLists ==
    { <<>>, <<Soft("Teamwork", TRUE, "works in teams")>>,
      <<Soft("Teamwork", FALSE, "")>> }

SkillFiles ==
    { Vocabulary([k \in 1..ns[1] |-> Tech(TechNames[k])], ns[2]) :
        ns \in {x \in (0..MaxSkills) \X SoftLists : x[1] + Len(x[2]) <= MaxSkills} }

\* vocabulary files that lack the expected shape
BadSkillFiles ==
    { [Vocabulary(<<>>, <<>>) EXCEPT !.has_technologies = FALSE],
      [Vocabulary(<<>>, <<>>) EXCEPT !.has_soft_skills = FALSE],
      Vocabulary(<<[has_name |-> FALSE, name |-> ""]>>, <<>>),
      Vocabulary(<<>>, <<[Soft("", TRUE, "works in teams") EXCEPT !.has_name = FALSE]>>) }

WellFormedSkills(sd) ==
    /\ sd.has_technologies /\ sd.has_soft_skills
    /\ \A k \in 1..Len(sd.technologies) : sd.technologies[k].has_name
    /\ \A k \in 1..Len(sd.soft_skills) : sd.soft_skills[k].has_name

\* lines 27-29
TechSkills(sd) == [k \in 1..Len(sd.technologies) |-> sd.technologies[k].name]
SoftSkills(sd) ==
    [k \in 1..Len(sd.soft_skills) |->
        IF sd.soft_skills[k].has_description THEN sd.soft_skills[k].description
        ELSE sd.soft_skills[k].name]
StudySkills(sd) == TechSkills(sd) \o SoftSkills(sd)

\* every phrase text the postings of a file hold
TextsOf(jobs) ==
    UNION { {JobSkillTexts(jobs[k])[h] : h \in 1..Len(JobSkillTexts(jobs[k]))} :
            k \in 1..Len(jobs) }

NumStudy(sd) == IF WellFormedSkills(sd) THEN Len(StudySkills(sd)) ELSE 0

(***************************************************************************)
(* Matching and aggregation, lines 64-98.                                  *)
(***************************************************************************)
\* a variant of IsMatch: the comparison is strict
IsMatchStrict(s) == s > SIMILARITY_THRESHOLD

\* similarity_matrix >= SIMILARITY_THRESHOLD, one cell
IsMatch(s) == s >= SIMILARITY_THRESHOLD

\* util.cos_sim(job_embeddings, study_embeddings)[r][j]
CosSim(texts, r, j) == sim[<<texts[r], j>>]

\* (similarity_matrix >= SIMILARITY_THRESHOLD).any(dim=1).sum().item()
MatchCounts(texts, n) ==
    Cardinality({r \in 1..Len(texts) : \E j \in 1..n : IsMatch(CosSim(texts, r, j))})

\* a variant of StudySkillMatches: any() over the other axis, as in line 83
StudySkillMatchesRows(texts, n) ==
    [r \in 1..Len(texts) |-> \E j \in 1..n : IsMatch(sim[<<texts[r], j>>])]

\* (similarity_matrix >= SIMILARITY_THRESHOLD).any(dim=0)
StudySkillMatches(texts, n) ==
    [j \in 1..n |-> \E r \in 1..Len(texts) : IsMatch(CosSim(texts, r, j))]

Min(a, b) == IF a <= b THEN a ELSE b

\* a variant of AddMatches: the counters are assigned, not added to
AddMatchesOverwrite(counts, matches) ==
    [j \in 1..Min(Len(counts), Len(matches)) |-> IF matches[j] THEN 1 ELSE 0]

\* [a + int(b) for a, b in zip(study_skill_match_counts, study_skill_matches)]
AddMatches(counts, matches) ==
    [j \in 1..Min(Len(counts), Len(matches)) |->
        counts[j] + (IF matches[j] THEN 1 ELSE 0)]

\* job_skill_counter.get(skill, 0)
CounterGet(counter, skill) ==
    IF \E k \in 1..Len(counter) : counter[k].job_skill = skill
    THEN (CHOOSE c \in {counter[k] : k \in 1..Len(counter)} : c.job_skill = skill).frequency
    ELSE 0

\* a variant of CounterAdd: a key the dict holds is not counted again
CounterAddOnce(counter, skill) ==
    IF \E k \in 1..Len(counter) : counter[k].job_skill = skill
    THEN counter
    ELSE Append(counter, [job_skill |-> skill, frequency |-> 1])

\* job_skill_counter[skill] = job_skill_counter.get(skill, 0) + 1: a key the
\* dict holds keeps its place, a new key goes to the end
CounterAdd(counter, skill) ==
    IF \E k \in 1..Len(counter) : counter[k].job_skill = skill
    THEN [k \in 1..Len(counter) |->
            IF counter[k].job_skill = skill
            THEN [counter[k] EXCEPT !.frequency = CounterGet(counter, skill) + 1]
            ELSE counter[k]]
    ELSE Append(counter, [job_skill |-> skill, frequency |-> CounterGet(counter, skill) + 1])

\* for skill in job_skill_texts: ...
RECURSIVE CountSkills(_, _)
CountSkills(counter, texts) ==
    IF texts = <<>> THEN counter
    ELSE CountSkills(CounterAdd(counter, Head(texts)), Tail(texts))

\* a variant of MatchRatio: the operands of the division are swapped
MatchRatioInverted(match_counts, total_job_skills) ==
    IF total_job_skills > 0
    THEN [num |-> total_job_skills, den |-> match_counts]
    ELSE [num |-> 0, den |-> 1]

\* the loop of lines 46-87 as it acts on the coverage counters: a posting
\* without phrases is passed over (line 76), any other adds its matches
RECURSIVE FoldCoverage(_, _, _)
FoldCoverage(counts, jobs, n) ==
    IF jobs = <<>> THEN counts
    ELSE FoldCoverage(
             IF JobSkillTexts(Head(jobs)) = <<>> THEN counts
             ELSE AddMatches(counts, StudySkillMatches(JobSkillTexts(Head(jobs)), n)),
             Tail(jobs), n)

\* the loop of lines 46-66 as it acts on the frequency mapping
RECURSIVE FoldCounter(_, _)
FoldCounter(counter, jobs) ==
    IF jobs = <<>> THEN counter
    ELSE FoldCounter(CountSkills(counter, JobSkillTexts(Head(jobs))), Tail(jobs))

\* A quotient is kept as the fraction the division was given; the literal 0
\* of the else branch is 0/1.
MatchRatio(match_counts, total_job_skills) ==
    IF total_job_skills > 0
    THEN [num |-> match_counts, den |-> total_job_skills]
    ELSE [num |-> 0, den |-> 1]

\* a variant of EmptyRow: the row of zeros carries no title and no company
EmptyRowUntitled(job) ==
    [job_title |-> "", company |-> "",
     matched_job_skills |-> 0, total_job_skills |-> 0,
     match_ratio |-> [num |-> 0, den |-> 1]]

\* the row of a posting without phrases, lines 69-75
EmptyRow(job) ==
    [job_title |-> Get(job, "title", ""), company |-> Get(job, "company", ""),
     matched_job_skills |-> 0, total_job_skills |-> 0,
     match_ratio |-> [num |-> 0, den |-> 1]]

\* the row of a posting with phrases, lines 89-98
MatchRow(job, texts, n) ==
    [job_title |-> Get(job, "title", ""), company |-> Get(job, "company", ""),
     matched_job_skills |-> MatchCounts(texts, n),
     total_job_skills |-> Len(texts),
     match_ratio |-> MatchRatio(MatchCounts(texts, n), Len(texts))]

(***************************************************************************)
(* The reporter, lines 100-142.                                            *)
(***************************************************************************)
\* a variant of IdxMax: among equal maxima the last position wins
IdxMaxLast(counts) ==
    CHOOSE j \in 1..Len(counts) :
        /\ \A h \in 1..Len(counts) : counts[h] <= counts[j]
        /\ \A h \in (j + 1)..Len(counts) : counts[h] < counts[j]

\* pd.Series(counts).idxmax(): the first position of the maximum
IdxMax(counts) ==
    CHOOSE j \in 1..Len(counts) :
        /\ \A h \in 1..Len(counts) : counts[h] <= counts[j]
        /\ \A h \in 1..(j - 1) : counts[h] < counts[j]

\* max(job_skill_counter, key=job_skill_counter.get): the first key, in
\* insertion order, of the maximum
MostNeeded(counter) ==
    counter[IdxMax([k \in 1..Len(counter) |-> counter[k].frequency])]

\* sort_values(by=..., ascending=False) with the default kind, quicksort, which
\* is not a stable sort: the orders it may give are all the descending ones.
SortValues(keys) ==
    { p \in [1..Len(keys) -> 1..Len(keys)] :
        /\ \A a, b \in 1..Len(keys) : a # b => p[a] # p[b]
        /\ \A a, b \in 1..Len(keys) : a < b => keys[p[a]] >= keys[p[b]] }

StudyRows ==
    [j \in 1..Len(study_skills) |->
        [study_skill |-> study_skills[j], match_count |-> study_skill_match_counts[j]]]

(***************************************************************************)
(* The run of main().                                                      *)
(***************************************************************************)
inputs == <<readable, jobs_data, skills_data, sim>>
accumulators ==
    <<results, study_skill_match_counts, job_skill_counter, job_skill_texts>>
outputs == <<written, out_results, out_summary, out_study, out_freq>>

NoSummary ==
    [study_skill |-> "", study_count |-> 0, has_job_skill |-> FALSE,
     job_skill |-> <<>>, job_count |-> 0]

Init ==
    /\ \/ /\ readable = {"jobs", "skills"}
          /\ jobs_data \in RunFiles
          /\ skills_data \in SkillFiles \cup BadSkillFiles
       \/ /\ readable = {"jobs", "skills"}
          /\ jobs_data \in NormFiles
          /\ skills_data = Vocabulary(<<Tech("Python")>>, <<>>)
       \/ /\ readable \in {{"jobs"}, {"skills"}, {}}
          /\ jobs_data = <<>>
          /\ skills_data = Vocabulary(<<>>, <<>>)
    /\ sim \in [TextsOf(jobs_data) \X (1..NumStudy(skills_data)) -> SimVals]
    /\ pc = "start"
    /\ err = "none"
    /\ study_skills = <<>>
    /\ i = 0
    /\ results = <<>>
    /\ study_skill_match_counts = <<>>
    /\ job_skill_counter = <<>>
    /\ job_skill_texts = <<>>
    /\ embed_calls = 0
    /\ written = {}
    /\ out_results = <<>>
    /\ out_summary = NoSummary
    /\ out_study = <<>>
    /\ out_freq = <<>>

Raise(e) ==
    /\ pc' = "failed"
    /\ err' = e

\* lines 23-24
LoadJson ==
    /\ pc = "start"
    /\ readable = {"jobs", "skills"}
    /\ pc' = "prepare"
    /\ UNCHANGED <<inputs, err, study_skills, i, accumulators, embed_calls, outputs>>

\* lines 16-18: open() of a file that cannot be read
LoadJsonFail ==
    /\ pc = "start"
    /\ readable # {"jobs", "skills"}
    /\ Raise("OSError")
    /\ UNCHANGED <<inputs, study_skills, i, accumulators, embed_calls, outputs>>

\* lines 27-31
PrepareSkills ==
    /\ pc = "prepare"
    /\ WellFormedSkills(skills_data)
    /\ study_skills' = StudySkills(skills_data)
    /\ pc' = "encode"
    /\ UNCHANGED <<inputs, err, i, accumulators, embed_calls, outputs>>

\* lines 27-28: a subscript of a key the vocabulary lacks
PrepareSkillsFail ==
    /\ pc = "prepare"
    /\ ~WellFormedSkills(skills_data)
    /\ Raise("KeyError")
    /\ UNCHANGED <<inputs, study_skills, i, accumulators, embed_calls, outputs>>

\* lines 34-45: the study skills are encoded and the accumulators set up
EncodeStudy ==
    /\ pc = "encode"
    /\ embed_calls' = embed_calls + 1
    /\ results' = <<>>
    /\ study_skill_match_counts' = [j \in 1..Len(study_skills) |-> 0]
    /\ job_skill_counter' = <<>>
    /\ pc' = "jobs"
    /\ UNCHANGED <<inputs, err, study_skills, i, job_skill_texts, outputs>>

\* lines 35-39: the model cannot be loaded or the call fails
EncodeStudyFail ==
    /\ pc = "encode"
    /\ embed_calls' = embed_calls + 1
    /\ Raise("EmbeddingError")
    /\ UNCHANGED <<inputs, study_skills, i, accumulators, outputs>>

HasNext == pc = "jobs" /\ i < Len(jobs_data)
job == jobs_data[i + 1]

\* lines 47-48: job.get of a record that is no dict
JobMalformed ==
    /\ HasNext
    /\ ~job.isdict
    /\ Raise("AttributeError")
    /\ UNCHANGED <<inputs, study_skills, i, accumulators, embed_calls, outputs>>

\* lines 47-76: a posting without phrases
JobNoSkills ==
    /\ HasNext
    /\ job.isdict
    /\ JobSkillTexts(job) = <<>>
    /\ job_skill_texts' = JobSkillTexts(job)
    /\ job_skill_counter' = CountSkills(job_skill_counter, job_skill_texts')
    /\ results' = Append(results, EmptyRow(job))
    /\ i' = i + 1
    /\ UNCHANGED <<inputs, pc, err, study_skills, study_skill_match_counts,
                   embed_calls, outputs>>

\* lines 47-66 and 78-98: a posting with phrases
JobMatched ==
    /\ HasNext
    /\ job.isdict
    /\ JobSkillTexts(job) # <<>>
    /\ job_skill_texts' = JobSkillTexts(job)
    /\ job_skill_counter' = CountSkills(job_skill_counter, job_skill_texts')
    /\ embed_calls' = embed_calls + 1
    /\ study_skill_match_counts' =
           AddMatches(study_skill_match_counts,
                      StudySkillMatches(job_skill_texts', Len(study_skills)))
    /\ results' = Append(results, MatchRow(job, job_skill_texts', Len(study_skills)))
    /\ i' = i + 1
    /\ UNCHANGED <<inputs, pc, err, study_skills, outputs>>

\* lines 47-66 and 79: the phrases are counted, then the encode call fails
JobEncodeFail ==
    /\ HasNext
    /\ job.isdict
    /\ JobSkillTexts(job) # <<>>
    /\ job_skill_texts' = JobSkillTexts(job)
    /\ job_skill_counter' = CountSkills(job_skill_counter, job_skill_texts')
    /\ embed_calls' = embed_calls + 1
    /\ Raise("EmbeddingError")
    /\ UNCHANGED <<inputs, study_skills, i, results, study_skill_match_counts, outputs>>

\* lines 47-66 and 79-82: cos_sim of the phrases with the embeddings of an
\* empty vocabulary; a build may give an empty matrix (JobMatched) or raise
JobCosSimFail ==
    /\ HasNext
    /\ job.isdict
    /\ JobSkillTexts(job) # <<>>
    /\ job_skill_texts' = JobSkillTexts(job)
    /\ study_skills = <<>>
    /\ job_skill_counter' = CountSkills(job_skill_counter, job_skill_texts')
    /\ embed_calls' = embed_calls + 1
    /\ Raise("RuntimeError")
    /\ UNCHANGED <<inputs, study_skills, i, results, study_skill_match_counts, outputs>>

\* lines 100-103
ExportResults ==
    /\ pc = "jobs"
    /\ i = Len(jobs_data)
    /\ out_results' = results
    /\ written' = written \cup {"job_skill_matches.csv"}
    /\ pc' = "summary"
    /\ UNCHANGED <<inputs, err, study_skills, i, accumulators, embed_calls,
                   out_summary, out_study, out_freq>>

\* lines 105-126
Summary ==
    /\ pc = "summary"
    /\ study_skill_match_counts # <<>>
    /\ LET max_study_idx == IdxMax(study_skill_match_counts)
       IN  out_summary' =
             [study_skill |-> study_skills[max_study_idx],
              study_count |-> study_skill_match_counts[max_study_idx],
              has_job_skill |-> job_skill_counter # <<>>,
              job_skill |-> IF job_skill_counter # <<>>
                            THEN MostNeeded(job_skill_counter).job_skill ELSE <<>>,
              job_count |-> IF job_skill_counter # <<>>
                            THEN MostNeeded(job_skill_counter).frequency ELSE 0]
    /\ written' = written \cup {"job_skill_summary.txt"}
    /\ pc' = "export_study"
    /\ UNCHANGED <<inputs, err, study_skills, i, accumulators, embed_calls,
                   out_results, out_study, out_freq>>

\* line 107: idxmax of an empty Series raises
SummaryFail ==
    /\ pc = "summary"
    /\ study_skill_match_counts = <<>>
    /\ Raise("ValueError")
    /\ UNCHANGED <<inputs, study_skills, i, accumulators, embed_calls, outputs>>

\* lines 128-136
ExportStudy ==
    /\ pc = "export_study"
    /\ \E p \in SortValues(study_skill_match_counts) :
           out_study' = [k \in 1..Len(StudyRows) |-> StudyRows[p[k]]]
    /\ written' = written \cup {"study_skill_match_counts.csv"}
    /\ pc' = "export_freq"
    /\ UNCHANGED <<inputs, err, study_skills, i, accumulators, embed_calls,
                   out_results, out_summary, out_freq>>

\* lines 138-142
ExportFreq ==
    /\ pc = "export_freq"
    /\ \E p \in SortValues([k \in 1..Len(job_skill_counter) |->
                               job_skill_counter[k].frequency]) :
           out_freq' = [k \in 1..Len(job_skill_counter) |-> job_skill_counter[p[k]]]
    /\ written' = written \cup {"job_skill_frequencies.csv"}
    /\ pc' = "done"
    /\ UNCHANGED <<inputs, err, study_skills, i, accumulators, embed_calls,
                   out_results, out_summary, out_study>>

Next ==
    \/ LoadJson
    \/ LoadJsonFail
    \/ PrepareSkills
    \/ PrepareSkillsFail
    \/ EncodeStudy
    \/ EncodeStudyFail
    \/ JobMalformed
    \/ JobNoSkills
    \/ JobMatched
    \/ JobEncodeFail
    \/ JobCosSimFail
    \/ ExportResults
    \/ Summary
    \/ SummaryFail
    \/ ExportStudy
    \/ ExportFreq

Spec == Init /\ [][Next]_vars

(***************************************************************************)
(* Properties.                                                             *)
(***************************************************************************)
\* the positions of main() at which the loop invariants are in force
Running == pc \in {"jobs", "summary", "export_study", "export_freq", "done"}

\* study skill j matches at least one of the phrases
MatchesSome(texts, j) ==
    \E r \in 1..Len(texts) : sim[<<texts[r], j>>] >= SIMILARITY_THRESHOLD

RowOk(row) ==
    /\ 0 <= row.matched_job_skills
    /\ row.matched_job_skills <= row.total_job_skills
    /\ row.match_ratio.den # 0
    /\ row.total_job_skills > 0 =>
           row.match_ratio.num * row.total_job_skills
               = row.matched_job_skills * row.match_ratio.den
    /\ row.total_job_skills = 0 =>
           row.matched_job_skills = 0 /\ row.match_ratio.num = 0

\* C1: every row of results has 0 <= matched_job_skills <= total_job_skills;
\* its match_ratio is matched_job_skills / total_job_skills when
\* total_job_skills > 0, never a quotient by zero, and with
\* total_job_skills = 0 both matched_job_skills and match_ratio are 0.
C1_RowsWellFormed == \A k \in 1..Len(results) : RowOk(results[k])

\* a row without phrases and a row that matched one phrase of two
C1_Witness ==
    /\ \E k \in 1..Len(results) : results[k].total_job_skills = 0
    /\ \E k \in 1..Len(results) :
           results[k].matched_job_skills = 1 /\ results[k].total_job_skills = 2

Occurrences(t, texts) == Cardinality({r \in 1..Len(texts) : texts[r] = t})

\* the phrases of the first k postings, in order
RECURSIVE PhrasesUpTo(_)
PhrasesUpTo(k) ==
    IF k = 0 THEN <<>> ELSE PhrasesUpTo(k - 1) \o JobSkillTexts(jobs_data[k])

RECURSIVE SumFrequency(_)
SumFrequency(counter) ==
    IF counter = <<>> THEN 0 ELSE Head(counter).frequency + SumFrequency(Tail(counter))

\* C3: after any number of processed postings the frequencies sum to the
\* number of phrase occurrences of those postings, the entry of a text holds
\* the number of occurrences of that text, every text that occurred has an
\* entry, and a posting without phrases leaves the mapping unchanged.
C3_FrequencyCounts ==
    /\ [](Running =>
            /\ SumFrequency(job_skill_counter) = Len(PhrasesUpTo(i))
            /\ \A k \in 1..Len(job_skill_counter) :
                   job_skill_counter[k].frequency
                       = Occurrences(job_skill_counter[k].job_skill, PhrasesUpTo(i))
            /\ \A r \in 1..Len(PhrasesUpTo(i)) :
                   \E k \in 1..Len(job_skill_counter) :
                       job_skill_counter[k].job_skill = PhrasesUpTo(i)[r]
            /\ \A k, h \in 1..Len(job_skill_counter) :
                   job_skill_counter[k].job_skill = job_skill_counter[h].job_skill
                       => k = h)
    /\ [][i' = i + 1 /\ job_skill_texts' = <<>>
              => job_skill_counter' = job_skill_counter]_vars

\* a text counted three times over two postings, twice within the first
C3_Witness ==
    /\ pc = "jobs" /\ i = 2
    /\ JobSkillTexts(jobs_data[1]) = <<<<"a">>, <<"a">>>>
    /\ \E k \in 1..Len(job_skill_counter) :
           job_skill_counter[k].job_skill = <<"a">> /\ job_skill_counter[k].frequency = 3
    /\ SumFrequency(job_skill_counter) = 4

\* the rows of a posting's similarity matrix with a cell at or above the threshold
MatchedRows(texts, n) ==
    {r \in 1..Len(texts) : \E j \in 1..n : sim[<<texts[r], j>>] >= SIMILARITY_THRESHOLD}

\* C4: for a posting with phrases, matched_job_skills is the number of its
\* phrases whose similarity to some study skill is at least the threshold, a
\* similarity equal to the threshold included; the coverage counters count
\* the postings by the same decision.
C4_ThresholdMatch ==
    Running =>
        /\ \A k \in 1..Len(results) :
               JobSkillTexts(jobs_data[k]) # <<>> =>
                   results[k].matched_job_skills
                       = Cardinality(MatchedRows(JobSkillTexts(jobs_data[k]),
                                                 Len(study_skills)))
        /\ \A j \in 1..Len(study_skills) :
               study_skill_match_counts[j]
                   = Cardinality({k \in 1..i :
                                      MatchesSome(JobSkillTexts(jobs_data[k]), j)})

\* a posting matched only through similarities equal to the threshold
C4_Witness ==
    /\ pc = "jobs" /\ i = 1
    /\ results[1].matched_job_skills = 2
    /\ \A r \in 1..Len(job_skill_texts) : \A j \in 1..Len(study_skills) :
           sim[<<job_skill_texts[r], j>>] <= SIMILARITY_THRESHOLD
    /\ 1 \in {study_skill_match_counts[j] : j \in 1..Len(study_skills)}

\* the input files can be read and every record has the expected shape
WellFormedInput ==
    /\ readable = {"jobs", "skills"}
    /\ WellFormedSkills(skills_data)
    /\ \A k \in 1..Len(jobs_data) : jobs_data[k].isdict

\* failures raised inside the embedding library (encode, cos_sim)
LibraryErrors == {"EmbeddingError", "RuntimeError"}

\* C5: a run with an empty study-skill vocabulary or an empty posting list
\* raises nothing of its own (the headline computation is guarded when the
\* coverage array is empty); failures of the embedding library apart, it
\* does not end in an error.
C5_EmptyInputsComplete ==
    (WellFormedInput /\ (StudySkills(skills_data) = <<>> \/ jobs_data = <<>>))
        => err \in {"none"} \cup LibraryErrors

AllOutputs ==
    {"job_skill_matches.csv", "job_skill_summary.txt",
     "study_skill_match_counts.csv", "job_skill_frequencies.csv"}

\* C6: a run either writes all four outputs or fails with none of them
\* written: no run that ends in an error has written some of the outputs.
C6_AllOrNothing ==
    /\ pc = "failed" => written = {}
    /\ pc = "done" => written = AllOutputs

\* C7: a run that fails because an input file or one of its records is
\* malformed has made no embedding call before it fails.
C7_MalformedBeforeEmbedding ==
    err \in {"OSError", "KeyError", "AttributeError"} => embed_calls = 0

Delimiters == {",", ";"}

\* the segments of s between delimiters of either kind
RECURSIVE TokensOf(_)
TokensOf(s) ==
    IF \A k \in 1..Len(s) : s[k] \notin Delimiters THEN <<s>>
    ELSE LET k == CHOOSE j \in 1..Len(s) :
                      s[j] \in Delimiters /\ \A h \in 1..(j - 1) : s[h] \notin Delimiters
         IN  <<SubSeq(s, 1, k - 1)>> \o TokensOf(SubSeq(s, k + 1, Len(s)))

\* s from its first to its last character that is not a blank
Trimmed(s) ==
    LET solid == {k \in 1..Len(s) : s[k] # " "}
    IN  IF solid = {} THEN <<>>
        ELSE SubSeq(s, CHOOSE a \in solid : \A k \in solid : a <= k,
                       CHOOSE b \in solid : \A k \in solid : k <= b)

NonEmpty(x) == x # <<>>
IsTruthy(x) == ~(x.kind \in {"null", "absent"} \/ x = Num(0) \/ x = Str(<<>>))

TrimmedAll(xs) == SelectSeq([k \in 1..Len(xs) |-> Trimmed(xs[k])], NonEmpty)

\* the phrases of a field as the claim states them: every element of a list
\* stringified and trimmed, the tokens of a string trimmed, empty ones dropped
ClaimedPhrases(val) ==
    CASE val.kind = "list" -> TrimmedAll([k \in 1..Len(val.items) |-> PyStr(val.items[k])])
      [] val.kind = "str" -> TrimmedAll(TokensOf(val.str))
      [] OTHER -> <<>>

\* the same, with the list elements that Python takes for false (null, 0,
\* the empty string) left out before they are stringified
AmendedPhrases(val) ==
    CASE val.kind = "list" ->
             LET kept == SelectSeq(val.items, IsTruthy)
             IN  TrimmedAll([k \in 1..Len(kept) |-> PyStr(kept[k])])
      [] val.kind = "str" -> TrimmedAll(TokensOf(val.str))
      [] OTHER -> <<>>

PhrasesClean(texts) ==
    \A r \in 1..Len(texts) :
        texts[r] # <<>> /\ texts[r][1] # " " /\ texts[r][Len(texts[r])] # " "

\* C8 as stated: the phrases of a posting are the phrases of requirements,
\* technologies_expected, technologies_optional and specializations, in that
\* order, each list element stringified and trimmed, each string split on
\* semicolons and commas and trimmed; only empty tokens are dropped.
C8_PhrasesAsClaimed ==
    (pc = "jobs" /\ i > 0) =>
        /\ job_skill_texts =
               ClaimedPhrases(jobs_data[i].requirements)
                   \o ClaimedPhrases(jobs_data[i].technologies_expected)
                   \o ClaimedPhrases(jobs_data[i].technologies_optional)
                   \o ClaimedPhrases(jobs_data[i].specializations)
        /\ PhrasesClean(job_skill_texts)

\* C8, amended: as C8, but a list element that Python takes for false (null,
\* 0, the empty string) is dropped as well, before it is stringified.
C8_PhrasesAmended ==
    (pc = "jobs" /\ i > 0) =>
        /\ job_skill_texts =
               AmendedPhrases(jobs_data[i].requirements)
                   \o AmendedPhrases(jobs_data[i].technologies_expected)
                   \o AmendedPhrases(jobs_data[i].technologies_optional)
                   \o AmendedPhrases(jobs_data[i].specializations)
        /\ PhrasesClean(job_skill_texts)

\* a posting with all four fields, whose list drops a 0 and keeps an element
\* with a comma unsplit
C8_Witness ==
    /\ pc = "jobs" /\ i = 1
    /\ jobs_data[1].requirements = List(<<Num(0), Str(<<" ", "a", ",", "a">>)>>)
    /\ job_skill_texts =
           <<<<"a", ",", "a">>, <<"b">>, <<"c">>, <<"b">>, <<"c">>>>

TextOr(key, default) == IF key.has THEN key.val ELSE default

\* C9: after k postings results has k rows, row n carrying the title and the
\* company of the n-th posting ("" when absent), a posting without phrases
\* included; rows are exported in that order and an appended row never changes.
C9_OneRowPerPosting ==
    /\ [](Running =>
            /\ Len(results) = i
            /\ \A k \in 1..i :
                   /\ results[k].job_title = TextOr(jobs_data[k].title, "")
                   /\ results[k].company = TextOr(jobs_data[k].company, "")
                   /\ results[k].total_job_skills = Len(JobSkillTexts(jobs_data[k])))
    /\ [](pc = "done" => out_results = results /\ Len(out_results) = Len(jobs_data))
    /\ [][\A k \in 1..Len(results) :
              Len(results') >= k /\ results'[k] = results[k]]_vars

\* two postings exported: the first without phrases and without a company,
\* the second without a title
C9_Witness ==
    /\ pc = "done"
    /\ Len(out_results) = 2
    /\ out_results[1].job_title = "QA" /\ out_results[1].company = ""
    /\ out_results[1].total_job_skills = 0
    /\ out_results[2].job_title = "" /\ out_results[2].company = "Initech"
    /\ out_results[2].total_job_skills = 2

\* the descending order of the keys that keeps equal keys in their order
StableDescending(keys) ==
    CHOOSE p \in [1..Len(keys) -> 1..Len(keys)] :
        /\ \A a, b \in 1..Len(keys) : a # b => p[a] # p[b]
        /\ \A a, b \in 1..Len(keys) :
               a < b => \/ keys[p[a]] > keys[p[b]]
                        \/ keys[p[a]] = keys[p[b]] /\ p[a] < p[b]

Frequencies == [k \in 1..Len(job_skill_counter) |-> job_skill_counter[k].frequency]

\* C10: the coverage export lists every study skill once by match_count
\* descending and the frequency export every phrase text once by frequency
\* descending, entries with equal counts in their original order.
C10_SortedStable ==
    pc = "done" =>
        /\ out_study =
               [k \in 1..Len(StudyRows) |->
                   StudyRows[StableDescending(study_skill_match_counts)[k]]]
        /\ out_freq =
               [k \in 1..Len(job_skill_counter) |->
                   job_skill_counter[StableDescending(Frequencies)[k]]]

\* C11: the headline study skill is the one of the greatest coverage counter,
\* the one of the smallest index among several; the headline job skill is the
\* phrase of the greatest frequency, the one inserted first among several;
\* with an empty frequency mapping the job-skill headline is reported absent.
C11_Headlines ==
    "job_skill_summary.txt" \in written =>
        /\ \E j \in 1..Len(study_skills) :
               /\ out_summary.study_skill = study_skills[j]
               /\ out_summary.study_count = study_skill_match_counts[j]
               /\ \A h \in 1..Len(study_skills) :
                      study_skill_match_counts[h] <= study_skill_match_counts[j]
               /\ \A h \in 1..(j - 1) :
                      study_skill_match_counts[h] < study_skill_match_counts[j]
        /\ out_summary.has_job_skill = (job_skill_counter # <<>>)
        /\ job_skill_counter # <<>> =>
               \E k \in 1..Len(job_skill_counter) :
                   /\ out_summary.job_skill = job_skill_counter[k].job_skill
                   /\ out_summary.job_count = job_skill_counter[k].frequency
                   /\ \A h \in 1..Len(job_skill_counter) :
                          job_skill_counter[h].frequency <= job_skill_counter[k].frequency
                   /\ \A h \in 1..(k - 1) :
                          job_skill_counter[h].frequency < job_skill_counter[k].frequency

\* a summary written with two study skills and two phrases at the maximum:
\* the first study skill and the phrase inserted first are named
C11_Witness ==
    /\ "job_skill_summary.txt" \in written
    /\ study_skill_match_counts = <<1, 1>>
    /\ out_summary.study_skill = study_skills[1]
    /\ Len(job_skill_counter) = 2
    /\ job_skill_counter[1].frequency = job_skill_counter[2].frequency
    /\ out_summary.job_skill = job_skill_counter[1].job_skill

Orderings(n) == {p \in [1..n -> 1..n] : \A a, b \in 1..n : a # b => p[a] # p[b]}

Reordered(jobs, p) == [k \in 1..Len(jobs) |-> jobs[p[k]]]

\* the mapping as a set of (text, count) pairs, its insertion order put aside
CountsOf(counter) ==
    {<<counter[k].job_skill, counter[k].frequency>> : k \in 1..Len(counter)}

\* C12: the per-posting updates commute: once the loop has consumed all the
\* postings, the coverage counters and the frequency counts it holds are
\* those that folding the same postings in any other order gives.
C12_UpdatesCommute ==
    (pc = "jobs" /\ i = Len(jobs_data)) =>
        \A p \in Orderings(Len(jobs_data)) :
            /\ FoldCoverage([j \in 1..Len(study_skills) |-> 0],
                            Reordered(jobs_data, p), Len(study_skills))
                   = study_skill_match_counts
            /\ CountsOf(FoldCounter(<<>>, Reordered(jobs_data, p)))
                   = CountsOf(job_skill_counter)

\* two different postings with phrases consumed, a study skill matched by
\* one of them only, and a mapping whose insertion order the other order of
\* the postings would change
C12_Witness ==
    /\ pc = "jobs" /\ i = 2 /\ Len(jobs_data) = 2
    /\ JobSkillTexts(jobs_data[1]) # <<>>
    /\ JobSkillTexts(jobs_data[2]) # <<>>
    /\ jobs_data[1] # jobs_data[2]
    /\ 1 \in {study_skill_match_counts[j] : j \in 1..Len(study_skills)}
    /\ FoldCounter(<<>>, <<jobs_data[2], jobs_data[1]>>) # job_skill_counter

====
